---- MODULE Spec2Model ----
(***************************************************************************)
(* Model of the Randomchat backend (convex/chat.ts, convex/schema.ts).     *)
(*                                                                         *)
(* Every Convex mutation runs as one serializable transaction, so each     *)
(* handler is one atomic action.  A handler that throws rolls its          *)
(* transaction back and leaves the tables unchanged.  What a handler does   *)
(* is a function of the database and its arguments: its Outcome operator    *)
(* gives the error it throws ("none" when it returns normally) and the      *)
(* database it leaves; the action of the same name applies it.              *)
(*                                                                         *)
(* A table is a sequence of documents in creation order (the order of a    *)
(* Convex table scan, of .first() and of an index range within equal index *)
(* keys).  The _id of a chatSessions document is its position in the table *)
(* (the table is never deleted from).  The system fields of the other      *)
(* documents and the joinedAt field of a waiting entry (Date.now()) are    *)
(* read by no handler and are not modelled.                                *)
(*                                                                         *)
(* The video negotiation of the React client (ChatInterface) is modelled   *)
(* per user: the asynchronous setupWebRTC function, the effect that        *)
(* handles the polled signals, and the signaling messages they send.       *)
(***************************************************************************)
EXTENDS Integers, Sequences, FiniteSets, TLC

\* ---- bounds of the model ----
MaxSessions == 2
MaxChatSessions == 2
MaxChatMessages == 2
MaxSignalSessions == 2
MaxSignals == 2
\* ICE candidates a peer connection gathers
MaxIce == 1

\* v.id("users") values
Users == {"u1", "u2", "u3"}
\* getAuthUserId(ctx) returns null for an unauthenticated caller
NoUser == "null"
Callers == Users \cup {NoUser}
Contents == {"hi", "yo"}
SignalTypes == {"offer", "answer", "ice-candidate"}
Payloads == {"sdp"}

VARIABLES chatSessions, waitingUsers, messages, rtcSignaling, client

vars == <<chatSessions, waitingUsers, messages, rtcSignaling, client>>

\* the database a handler reads (ctx.db), and a handler's writes applied to it
db == [chatSessions |-> chatSessions, waitingUsers |-> waitingUsers,
       messages |-> messages, rtcSignaling |-> rtcSignaling]

ApplyDb(outcome) ==
    /\ chatSessions' = outcome.db.chatSessions
    /\ waitingUsers' = outcome.db.waitingUsers
    /\ messages' = outcome.db.messages
    /\ rtcSignaling' = outcome.db.rtcSignaling

\* a mutation called from outside the negotiation logic of the client
Apply(outcome) == ApplyDb(outcome) /\ UNCHANGED client

\* ---- sequence helpers ----
RECURSIVE RemoveAt(_, _)
RemoveAt(s, i) ==
    IF s = <<>> THEN <<>>
    ELSE IF i = 1 THEN Tail(s)
    ELSE <<Head(s)>> \o RemoveAt(Tail(s), i - 1)

RECURSIVE Reverse(_)
Reverse(s) == IF s = <<>> THEN <<>> ELSE Reverse(Tail(s)) \o <<Head(s)>>

\* ---- schema ----
ChatSessionDoc == [userA : Users, userB : Users, active : BOOLEAN, hasVideo : BOOLEAN]
MessageDoc == [sessionId : Nat \ {0}, content : Contents, authorId : Users]
WaitingDoc == [userId : Users, wantsVideo : BOOLEAN]
SignalDoc == [sessionId : Nat \ {0}, fromUserId : Users, toUserId : Users,
              type : SignalTypes, payload : Payloads]

\* ---- shared lookups ----
\* session.userA !== userId && session.userB !== userId, negated
IsParticipant(session, userId) == session.userA = userId \/ session.userB = userId

\* the chatSessions query of joinQueue and getCurrentSession, before .unique()
ActiveSessionsOf(sessions, userId) ==
    {i \in DOMAIN sessions : IsParticipant(sessions[i], userId) /\ sessions[i].active}

\* ctx.db.get(sessionId): the document or null
SessionExists(sessions, sid) == sid \in DOMAIN sessions

\* ---- joinQueue ----

\* (variant: the patch flips the flag)
PatchInactive_toggle(sessions, sid) ==
    [sessions EXCEPT ![sid].active = ~sessions[sid].active]

\* ctx.db.patch(sessionId, { active: false })
PatchInactive(sessions, sid) == [sessions EXCEPT ![sid].active = FALSE]

\* (variant: the caller's existing session is left active)
EndExistingSession_keep(sessions, userId) == sessions

EndExistingSession(sessions, userId) ==
    LET act == ActiveSessionsOf(sessions, userId) IN
    IF act = {} THEN sessions
    ELSE PatchInactive(sessions, CHOOSE i \in act : TRUE)

\* (variant: the existing entries are left in the table)
DeleteWaitingOf_keep(waiting, userId) == waiting

\* delete every waiting entry of userId
DeleteWaitingOf(waiting, userId) ==
    SelectSeq(waiting, LAMBDA w : w.userId # userId)

\* (variant: the wantsVideo filter is dropped)
MatchFilter_anyone(w, userId, wantsVideo) == w.userId # userId

\* the two filters of the match query
MatchFilter(w, userId, wantsVideo) ==
    /\ w.userId # userId
    /\ (IF wantsVideo THEN w.wantsVideo = TRUE ELSE TRUE)

\* (variant: a video request is matched with video entries only, and a
\* non-video request with non-video entries only)
FindMatch_sameFlag(waiting, userId, wantsVideo) ==
    LET hits == {i \in DOMAIN waiting :
                    waiting[i].userId # userId /\ waiting[i].wantsVideo = wantsVideo} IN
    IF hits = {} THEN 0
    ELSE CHOOSE i \in hits : \A j \in hits : i <= j

\* .first(): position of the first qualifying entry, 0 for null
FindMatch(waiting, userId, wantsVideo) ==
    LET hits == {i \in DOMAIN waiting : MatchFilter(waiting[i], userId, wantsVideo)} IN
    IF hits = {} THEN 0
    ELSE CHOOSE i \in hits : \A j \in hits : i <= j

\* (variant: the two participants are stored the other way round)
NewSession_swapped(userId, match, wantsVideo) ==
    [userA |-> match.userId, userB |-> userId, active |-> TRUE,
     hasVideo |-> (wantsVideo /\ match.wantsVideo)]

\* (variant: the second participant is the caller again)
NewSession_self(userId, match, wantsVideo) ==
    [userA |-> userId, userB |-> userId, active |-> TRUE,
     hasVideo |-> (wantsVideo /\ match.wantsVideo)]

NewSession(userId, match, wantsVideo) ==
    [userA |-> userId, userB |-> match.userId, active |-> TRUE,
     hasVideo |-> (wantsVideo /\ match.wantsVideo)]

\* (variant: the matched entry stays in the table)
DeleteMatched_skip(waiting, m) == waiting

\* ctx.db.delete(match._id)
DeleteMatched(waiting, m) == RemoveAt(waiting, m)

\* (variant: the entry does not record the request for video)
NewWaiting_noVideo(userId, wantsVideo) ==
    [userId |-> userId, wantsVideo |-> FALSE]

NewWaiting(userId, wantsVideo) ==
    [userId |-> userId, wantsVideo |-> wantsVideo]

JoinQueueError(sessions, caller) ==
    IF caller = NoUser THEN "Not authenticated"
    ELSE IF Cardinality(ActiveSessionsOf(sessions, caller)) > 1 THEN "unique() returned more than one result"
    ELSE "none"

JoinQueueOutcome(d, caller, wantsVideo) ==
    LET err == JoinQueueError(d.chatSessions, caller) IN
    IF err # "none"
    THEN [err |-> err, db |-> d]
    ELSE LET ended == EndExistingSession(d.chatSessions, caller)
             cleaned == DeleteWaitingOf(d.waitingUsers, caller)
             m == FindMatch(cleaned, caller, wantsVideo)
         IN [err |-> "none",
             db |-> IF m # 0
                    THEN [d EXCEPT
                            !.chatSessions = Append(ended, NewSession(caller, cleaned[m], wantsVideo)),
                            !.waitingUsers = DeleteMatched(cleaned, m)]
                    ELSE [d EXCEPT
                            !.chatSessions = ended,
                            !.waitingUsers = Append(cleaned, NewWaiting(caller, wantsVideo))]]

JoinQueue(caller, wantsVideo) == Apply(JoinQueueOutcome(db, caller, wantsVideo))

\* the client's isInitiator = session.userA === userId
IsInitiator(session, userId) == session.userA = userId

\* ---- getCurrentSession / isWaiting ----
\* the result of .unique(): null, the document's id, or the error it throws
\* when the query finds more than one document
Unique(ids) ==
    IF ids = {} THEN [status |-> "null", id |-> 0]
    ELSE IF Cardinality(ids) > 1 THEN [status |-> "error", id |-> 0]
    ELSE [status |-> "found", id |-> CHOOSE i \in ids : TRUE]

GetCurrentSession(caller) ==
    IF caller = NoUser THEN [status |-> "null", id |-> 0]
    ELSE Unique(ActiveSessionsOf(chatSessions, caller))

WaitingEntriesOf(waiting, userId) ==
    {i \in DOMAIN waiting : waiting[i].userId = userId}

\* !!waiting, or the error of .unique()
IsWaiting(caller) ==
    IF caller = NoUser THEN "false"
    ELSE LET waiting == Unique(WaitingEntriesOf(waitingUsers, caller)) IN
         IF waiting.status = "error" THEN "error"
         ELSE IF waiting.status = "found" THEN "true"
         ELSE "false"

\* ---- sendMessage / getMessages ----
\* (variant: the participant check is missing)
SendMessageError_noParticipantCheck(sessions, caller, sid) ==
    IF caller = NoUser THEN "Not authenticated"
    ELSE IF ~SessionExists(sessions, sid) \/ ~sessions[sid].active THEN "Invalid session"
    ELSE "none"

SendMessageError(sessions, caller, sid) ==
    IF caller = NoUser THEN "Not authenticated"
    ELSE IF ~SessionExists(sessions, sid) \/ ~sessions[sid].active THEN "Invalid session"
    ELSE IF ~IsParticipant(sessions[sid], caller) THEN "Not in this session"
    ELSE "none"

NewMessage(sid, content, userId) ==
    [sessionId |-> sid, content |-> content, authorId |-> userId]

SendMessageOutcome(d, caller, sid, content) ==
    LET err == SendMessageError(d.chatSessions, caller, sid) IN
    IF err # "none"
    THEN [err |-> err, db |-> d]
    ELSE [err |-> "none",
          db |-> [d EXCEPT !.messages = Append(@, NewMessage(sid, content, caller))]]

SendMessage(caller, sid, content) == Apply(SendMessageOutcome(db, caller, sid, content))

\* (variant: .order("desc"))
MessagesBySession_desc(msgs, sid) ==
    Reverse(SelectSeq(msgs, LAMBDA m : m.sessionId = sid))

\* withIndex("by_session", eq sessionId).order("asc").collect()
MessagesBySession(msgs, sid) == SelectSeq(msgs, LAMBDA m : m.sessionId = sid)

\* (variant: !session.active is not checked)
GetMessagesAllowed_noActiveCheck(sessions, caller, sid) ==
    /\ caller # NoUser
    /\ SessionExists(sessions, sid)
    /\ IsParticipant(sessions[sid], caller)

\* the three early returns of getMessages, negated
GetMessagesAllowed(sessions, caller, sid) ==
    /\ caller # NoUser
    /\ SessionExists(sessions, sid)
    /\ sessions[sid].active
    /\ IsParticipant(sessions[sid], caller)

GetMessages(caller, sid) ==
    IF GetMessagesAllowed(chatSessions, caller, sid)
    THEN MessagesBySession(messages, sid)
    ELSE <<>>

\* ---- sendSignal / getSignals ----
SendSignalError(sessions, caller, sid, toUserId) ==
    IF caller = NoUser THEN "Not authenticated"
    ELSE IF ~SessionExists(sessions, sid) \/ ~sessions[sid].active \/ ~sessions[sid].hasVideo
         THEN "Invalid session"
    ELSE IF ~IsParticipant(sessions[sid], caller) THEN "Not in this session"
    ELSE IF toUserId # sessions[sid].userA /\ toUserId # sessions[sid].userB
         THEN "Invalid target user"
    ELSE "none"

NewSignal(sid, userId, toUserId, type, payload) ==
    [sessionId |-> sid, fromUserId |-> userId, toUserId |-> toUserId,
     type |-> type, payload |-> payload]

SendSignalOutcome(d, caller, sid, toUserId, type, payload) ==
    LET err == SendSignalError(d.chatSessions, caller, sid, toUserId) IN
    IF err # "none"
    THEN [err |-> err, db |-> d]
    ELSE [err |-> "none",
          db |-> [d EXCEPT !.rtcSignaling =
                      Append(@, NewSignal(sid, caller, toUserId, type, payload))]]

SendSignal(caller, sid, toUserId, type, payload) ==
    Apply(SendSignalOutcome(db, caller, sid, toUserId, type, payload))

\* (variant: the index range is the session only)
SignalsBySessionAndTo_anyTo(sigs, sid, userId) ==
    SelectSeq(sigs, LAMBDA s : s.sessionId = sid)

\* withIndex("by_session_and_to", eq sessionId, eq toUserId).collect()
SignalsBySessionAndTo(sigs, sid, userId) ==
    SelectSeq(sigs, LAMBDA s : s.sessionId = sid /\ s.toUserId = userId)

GetSignalsAllowed(sessions, caller, sid) ==
    /\ caller # NoUser
    /\ SessionExists(sessions, sid)
    /\ sessions[sid].active
    /\ sessions[sid].hasVideo
    /\ IsParticipant(sessions[sid], caller)

GetSignals(caller, sid) ==
    IF GetSignalsAllowed(chatSessions, caller, sid)
    THEN SignalsBySessionAndTo(rtcSignaling, sid, caller)
    ELSE <<>>

\* ---- leaveChat ----
LeaveChatError(caller) ==
    IF caller = NoUser THEN "Not authenticated" ELSE "none"

\* (variant: the participant check is missing)
LeaveChatReturnsEarly_noParticipantCheck(sessions, caller, sid) ==
    ~SessionExists(sessions, sid)

\* the two early returns
LeaveChatReturnsEarly(sessions, caller, sid) ==
    \/ ~SessionExists(sessions, sid)
    \/ ~IsParticipant(sessions[sid], caller)

\* clean up any waiting entries of the caller
LeaveChatPurge(waiting, userId) == DeleteWaitingOf(waiting, userId)

\* (variant: the other participant is put back in the queue)
LeaveChatOutcome_requeuePeer(d, caller, sid) ==
    LET err == LeaveChatError(caller) IN
    IF err # "none"
    THEN [err |-> err, db |-> d]
    ELSE IF LeaveChatReturnsEarly(d.chatSessions, caller, sid)
    THEN [err |-> "none", db |-> d]
    ELSE LET session == d.chatSessions[sid]
             peer == IF session.userA = caller THEN session.userB ELSE session.userA
         IN [err |-> "none",
             db |-> [d EXCEPT !.chatSessions = PatchInactive(@, sid),
                              !.waitingUsers = Append(LeaveChatPurge(@, caller),
                                                      NewWaiting(peer, session.hasVideo))]]

LeaveChatOutcome(d, caller, sid) ==
    LET err == LeaveChatError(caller) IN
    IF err # "none"
    THEN [err |-> err, db |-> d]
    ELSE IF LeaveChatReturnsEarly(d.chatSessions, caller, sid)
    THEN [err |-> "none", db |-> d]
    ELSE [err |-> "none",
          db |-> [d EXCEPT !.chatSessions = PatchInactive(@, sid),
                           !.waitingUsers = LeaveChatPurge(@, caller)]]

LeaveChat(caller, sid) == Apply(LeaveChatOutcome(db, caller, sid))

\* ---- the client's video negotiation (ChatInterface) ----
\* setup: where setupWebRTC is ("idle" not started, "media" awaiting
\* getUserMedia, "offer" awaiting createOffer and setLocalDescription, "done");
\* pc: peerConnectionRef.current is set; localDesc: setLocalDescription was
\* called; seen: the length of the signals array the signal effect last ran
\* with; answering: handleSignal calls that are computing an answer; ice:
\* candidates sent
ClientInit ==
    [setup |-> "idle", pc |-> FALSE, localDesc |-> FALSE,
     seen |-> 0, answering |-> 0, ice |-> 0]

\* useQuery(getCurrentSession) when session?.hasVideo, 0 otherwise
CurrentVideoSession(u) ==
    LET r == GetCurrentSession(u) IN
    IF r.status = "found" /\ chatSessions[r.id].hasVideo THEN r.id ELSE 0

OtherUserId(session, userId) ==
    IF session.userA = userId THEN session.userB ELSE session.userA

\* sendSignal called by the client of u to the other participant
ClientSendSignal(u, type) ==
    LET sid == CurrentVideoSession(u) IN
    ApplyDb(SendSignalOutcome(db, u, sid, OtherUserId(chatSessions[sid], u), type, "sdp"))

\* the setup effect runs and setupWebRTC awaits getUserMedia
StartSetup(u) ==
    /\ CurrentVideoSession(u) # 0
    /\ client[u].setup = "idle"
    /\ client' = [client EXCEPT ![u].setup = "media"]
    /\ UNCHANGED <<chatSessions, waitingUsers, messages, rtcSignaling>>

\* getUserMedia resolves: the peer connection is created and stored
MediaReady(u) ==
    /\ CurrentVideoSession(u) # 0
    /\ client[u].setup = "media"
    /\ client' = [client EXCEPT
                    ![u].pc = TRUE,
                    ![u].setup = IF IsInitiator(chatSessions[CurrentVideoSession(u)], u)
                                 THEN "offer" ELSE "done"]
    /\ UNCHANGED <<chatSessions, waitingUsers, messages, rtcSignaling>>

\* the initiator creates and sends the offer
SendOffer(u) ==
    /\ CurrentVideoSession(u) # 0
    /\ client[u].setup = "offer"
    /\ ClientSendSignal(u, "offer")
    /\ client' = [client EXCEPT ![u].setup = "done", ![u].localDesc = TRUE]

\* the signal effect runs because the polled signals changed: handleSignal is
\* called for every signal of the array, returns at once when there is no peer
\* connection, and starts to compute an answer to every offer otherwise
SignalEffect(u) ==
    LET signals == GetSignals(u, CurrentVideoSession(u))
        offers == SelectSeq(signals, LAMBDA g : g.type = "offer")
    IN /\ CurrentVideoSession(u) # 0
       /\ Len(signals) # client[u].seen
       /\ client' = [client EXCEPT
                       ![u].seen = Len(signals),
                       ![u].answering = @ + (IF client[u].pc THEN Len(offers) ELSE 0)]
       /\ UNCHANGED <<chatSessions, waitingUsers, messages, rtcSignaling>>

\* a handleSignal call sends its answer
SendAnswer(u) ==
    /\ CurrentVideoSession(u) # 0
    /\ client[u].answering > 0
    /\ ClientSendSignal(u, "answer")
    /\ client' = [client EXCEPT ![u].answering = @ - 1, ![u].localDesc = TRUE]

\* pc.onicecandidate fires with a candidate
SendIce(u) ==
    /\ CurrentVideoSession(u) # 0
    /\ client[u].pc /\ client[u].localDesc
    /\ client[u].ice < MaxIce
    /\ ClientSendSignal(u, "ice-candidate")
    /\ client' = [client EXCEPT ![u].ice = @ + 1]

ClientStep(u) ==
    \/ StartSetup(u)
    \/ MediaReady(u)
    \/ SendOffer(u)
    \/ SignalEffect(u)
    \/ SendAnswer(u)
    \/ SendIce(u)

\* ---- specifications ----
Init ==
    /\ chatSessions = <<>>
    /\ waitingUsers = <<>>
    /\ messages = <<>>
    /\ rtcSignaling = <<>>
    /\ client = [u \in Users |-> ClientInit]

\* v.id("chatSessions") arguments: the ids in the table and one that names no
\* document
SessionIds == 1..(Len(chatSessions) + 1)

\* The handlers are unbounded; a specification explores the calls whose result
\* stays within its bounds.  Spec explores every handler, the messages and
\* rtcSignaling tables up to the first relayed document; SpecMatch explores
\* matchmaking alone and SpecChat the messages table further.  A call that
\* throws (no caller identity) changes nothing and is a stuttering step, which
\* [Next]_vars allows already, so the steps are drawn from the authenticated
\* callers.
Next ==
    \/ \E c \in Users, wv \in BOOLEAN :
           JoinQueue(c, wv) /\ Len(chatSessions') <= MaxSessions
    \/ \E c \in Users, sid \in SessionIds : LeaveChat(c, sid)
    \/ /\ messages = <<>> /\ rtcSignaling = <<>>
       /\ \E c \in Users, sid \in SessionIds, content \in {"hi"} :
              SendMessage(c, sid, content)
    \/ /\ messages = <<>> /\ rtcSignaling = <<>>
       /\ \E c \in Users, sid \in SessionIds, to \in Users, ty \in {"offer"}, p \in Payloads :
              SendSignal(c, sid, to, ty, p)

Spec == Init /\ [][Next]_vars

\* matchmaking: joinQueue and leaveChat only, the handlers that write
\* chatSessions and waitingUsers
NextMatch ==
    \/ \E c \in Users, wv \in BOOLEAN :
           JoinQueue(c, wv) /\ Len(chatSessions') <= MaxSessions
    \/ \E c \in Users, sid \in SessionIds : LeaveChat(c, sid)

SpecMatch == Init /\ [][NextMatch]_vars

\* the chat of a session: joinQueue, leaveChat and sendMessage only
NextChat ==
    \/ \E c \in Users, wv \in {FALSE} :
           JoinQueue(c, wv) /\ Len(chatSessions') <= MaxChatSessions
    \/ \E c \in Users, sid \in SessionIds : LeaveChat(c, sid)
    \/ /\ Len(messages) < MaxChatMessages
       /\ \E c \in Users, sid \in DOMAIN chatSessions, content \in Contents :
              SendMessage(c, sid, content)

SpecChat == Init /\ [][NextChat]_vars

\* the signaling relay of video sessions: joinQueue with video, leaveChat and
\* sendSignal
NextSignal ==
    \/ \E c \in Users, wv \in {TRUE} :
           JoinQueue(c, wv) /\ Len(chatSessions') <= MaxSignalSessions
    \/ \E c \in Users, sid \in SessionIds : LeaveChat(c, sid)
    \/ /\ Len(rtcSignaling) < MaxSignals
       /\ \E c \in Users, sid \in DOMAIN chatSessions, to \in Users,
             ty \in {"offer"}, p \in Payloads :
              SendSignal(c, sid, to, ty, p)

SpecSignal == Init /\ [][NextSignal]_vars

\* video negotiation in a session that stays active: users who are in no
\* session join with video, and the clients of the session's participants run
\* the negotiation.  Every client step is a promise that resolves or an effect
\* React runs, so each client takes the steps it can take.
NextRtc ==
    \/ \E c \in Users :
           /\ ActiveSessionsOf(chatSessions, c) = {}
           /\ JoinQueue(c, TRUE)
    \/ \E u \in Users : ClientStep(u)

SpecRtc ==
    /\ Init
    /\ [][NextRtc]_vars
    /\ \A u \in Users : WF_vars(ClientStep(u))

TypeOK ==
    /\ chatSessions \in Seq(ChatSessionDoc)
    /\ waitingUsers \in Seq(WaitingDoc)
    /\ messages \in Seq(MessageDoc)
    /\ rtcSignaling \in Seq(SignalDoc)

\* ======================= properties =======================
\* A claim about one call is stated over the call's outcome in every reachable
\* state: for every caller and every argument, whether or not a specification
\* explores the resulting state.
RangeOf(seq) == {seq[i] : i \in DOMAIN seq}

\* the outcome of joinQueue by J; whether it inserted a chatSessions document;
\* that document; and the waiting entries of other users it removed
JoinOf(J, wv) == JoinQueueOutcome(db, J, wv)
Matched(o) == Len(o.db.chatSessions) = Len(chatSessions) + 1
Created(o) == o.db.chatSessions[Len(chatSessions) + 1]
Consumed(o, J) ==
    {e \in RangeOf(waitingUsers) :
        e.userId # J /\ \A j \in DOMAIN o.db.waitingUsers : o.db.waitingUsers[j] # e}

\* C1: in every reachable state each user is a participant of at most one
\* active session and owns at most one waiting entry, so no unique() lookup
\* (joinQueue, getCurrentSession, isWaiting) finds more than one document.
C1_AtMostOne ==
    \A u \in Users :
        /\ Cardinality(ActiveSessionsOf(chatSessions, u)) <= 1
        /\ Cardinality(WaitingEntriesOf(waitingUsers, u)) <= 1
        /\ GetCurrentSession(u).status # "error"
        /\ IsWaiting(u) # "error"
        /\ JoinQueueError(chatSessions, u) = "none"

\* some user has an ended session and, after joining again, an active one,
\* while another user waits
C1_Witness ==
    /\ waitingUsers # <<>>
    /\ \E u \in Users : \E i, j \in DOMAIN chatSessions :
          /\ i # j
          /\ IsParticipant(chatSessions[i], u) /\ ~chatSessions[i].active
          /\ IsParticipant(chatSessions[j], u) /\ chatSessions[j].active

C3_VideoMatch ==
    \A J \in Users, wv \in BOOLEAN :
        LET o == JoinOf(J, wv) IN
        Matched(o) =>
            LET matched == Consumed(o, J) IN
            /\ matched # {}
            /\ \A e \in matched :
                  /\ wv => e.wantsVideo
                  /\ Created(o).hasVideo <=> (wv /\ e.wantsVideo)

\* a video session and a non-video session have both been created
C3_Witness ==
    \E i, j \in DOMAIN chatSessions :
        chatSessions[i].hasVideo /\ ~chatSessions[j].hasVideo

\* the second of two joins: exactly one entry, of another user, is waiting
\* when J calls joinQueue
SecondJoin(J) == Len(waitingUsers) = 1 /\ waitingUsers[1].userId # J

BothWaitAfter(o, J) ==
    /\ WaitingEntriesOf(o.db.waitingUsers, waitingUsers[1].userId) # {}
    /\ WaitingEntriesOf(o.db.waitingUsers, J) # {}

\* C4 (as stated): after two joins by distinct users, the two never both wait
\* while the join rule accepts one of the two entries for the other's request.
C4_Original ==
    \A J \in Users, wv \in BOOLEAN :
        SecondJoin(J) =>
            LET first == waitingUsers[1]
                second == NewWaiting(J, wv)
                o == JoinOf(J, wv)
            IN ~( /\ BothWaitAfter(o, J)
                  /\ \/ MatchFilter(first, J, wv)
                     \/ MatchFilter(second, first.userId, first.wantsVideo) )

\* C4 (amended): after two joins by distinct users, the two never both wait
\* while the join rule accepts the first joiner's entry for the second joiner's
\* request; they do both wait when the first joined without video and the
\* second with video.
C4_SecondMatchesFirst ==
    \A J \in Users, wv \in BOOLEAN :
        SecondJoin(J) =>
            LET first == waitingUsers[1]
                o == JoinOf(J, wv)
            IN /\ ~(BothWaitAfter(o, J) /\ MatchFilter(first, J, wv))
               /\ (~first.wantsVideo /\ wv) => BothWaitAfter(o, J)

\* two users wait, the earlier one without video and the later one with video
C4_Witness ==
    /\ chatSessions = <<>>
    /\ Len(waitingUsers) = 2
    /\ ~waitingUsers[1].wantsVideo
    /\ waitingUsers[2].wantsVideo

\* C5: a waiting entry is consumed by at most one session creation, and an
\* entry its owner has removed is never matched: a join that creates a session
\* pairs the joiner with the owner of exactly one entry that is in the table
\* when the join runs, and that entry is deleted in the same transaction, so
\* its owner has no entry left for a later join to match.
C5_EntryConsumedOnce ==
    \A J \in Users, wv \in BOOLEAN :
        LET o == JoinOf(J, wv) IN
        Matched(o) =>
            \E e \in RangeOf(waitingUsers) :
                /\ e.userId # J
                /\ Consumed(o, J) = {e}
                /\ IsParticipant(Created(o), e.userId)
                /\ WaitingEntriesOf(o.db.waitingUsers, e.userId) = {}
                /\ Len(o.db.waitingUsers) =
                       Cardinality({i \in DOMAIN waitingUsers : waitingUsers[i].userId # J}) - 1

\* two sessions have been created while a third user still waits
C5_Witness ==
    /\ Len(chatSessions) = 2
    /\ Len(waitingUsers) = 1
    /\ ~IsParticipant(chatSessions[2], waitingUsers[1].userId)

\* leaveChat by U naming sid, and whether U belongs to the named session
LeaveOf(U, sid) == LeaveChatOutcome(db, U, sid)
InSession(U, sid) ==
    SessionExists(chatSessions, sid) /\ IsParticipant(chatSessions[sid], U)
NotOf(waiting, U) == SelectSeq(waiting, LAMBDA w : w.userId # U)

\* C6: after any leaveChat by an authenticated user U, U owns no
\* waiting entry, whatever session is named.
C6_Original ==
    \A U \in Users, sid \in SessionIds :
        WaitingEntriesOf(LeaveOf(U, sid).db.waitingUsers, U) = {}

\* C7 (as stated): leaveChat by an authenticated caller on a session that is
\* already ended or does not exist raises no error and leaves every record
\* unchanged.
C7_Original ==
    \A U \in Users, sid \in SessionIds :
        LET o == LeaveOf(U, sid) IN
        (~SessionExists(chatSessions, sid) \/ ~chatSessions[sid].active) =>
            /\ o.err = "none"
            /\ o.db = db

\* C7 (amended): leaveChat by an authenticated caller on a session that is
\* already ended or does not exist raises no error and leaves every session,
\* message and signaling message unchanged; the waiting entries are unchanged
\* too, except that on an ended session of which the caller is a participant
\* the caller's own waiting entries are deleted.
C7_NoOpButPurge ==
    \A U \in Users, sid \in SessionIds :
        LET o == LeaveOf(U, sid) IN
        (~SessionExists(chatSessions, sid) \/ ~chatSessions[sid].active) =>
            /\ o.err = "none"
            /\ o.db.chatSessions = chatSessions
            /\ o.db.messages = messages
            /\ o.db.rtcSignaling = rtcSignaling
            /\ o.db.waitingUsers =
                   IF InSession(U, sid) THEN NotOf(waitingUsers, U) ELSE waitingUsers

\* a participant of an ended session waits again (it joined the queue after
\* the session ended), and the ended session holds a message
C7_Witness ==
    \E U \in Users, sid \in DOMAIN chatSessions :
        /\ ~chatSessions[sid].active
        /\ IsParticipant(chatSessions[sid], U)
        /\ WaitingEntriesOf(waitingUsers, U) # {}
        /\ MessagesBySession(messages, sid) # <<>>

\* sendSignal by c naming sid and toUserId
SignalOf(c, sid, to, ty) == SendSignalOutcome(db, c, sid, to, ty, "sdp")

\* C8: sendSignal appends a signaling message only when the caller is
\* authenticated, the session exists, is active, has hasVideo = true, the
\* caller is a participant and toUserId is the other participant; a toUserId
\* equal to the caller or to a user outside the session is rejected with an
\* error and nothing is stored.
C8_Original ==
    \A c \in Callers, sid \in SessionIds, to \in Users, ty \in SignalTypes :
        LET o == SignalOf(c, sid, to, ty) IN
        /\ (o.db.rtcSignaling # rtcSignaling) =>
              /\ c # NoUser
              /\ SessionExists(chatSessions, sid)
              /\ chatSessions[sid].active
              /\ chatSessions[sid].hasVideo
              /\ IsParticipant(chatSessions[sid], c)
              /\ IsParticipant(chatSessions[sid], to)
              /\ to # c
        /\ (to = c \/ ~InSession(to, sid)) =>
              /\ o.err # "none"
              /\ o.db = db

\* sendMessage by c naming sid
MessageOf(c, sid, content) == SendMessageOutcome(db, c, sid, content)

\* C9: sendMessage appends a message with authorId = caller only if the
\* caller is authenticated, the session exists, is active and the caller is
\* its userA or userB; in every other case the call fails with an error and
\* the message store (every table) is unchanged.
C9_SendMessageGuard ==
    \A c \in Callers, sid \in SessionIds, content \in Contents :
        LET o == MessageOf(c, sid, content) IN
        IF /\ c # NoUser
           /\ SessionExists(chatSessions, sid)
           /\ chatSessions[sid].active
           /\ (chatSessions[sid].userA = c \/ chatSessions[sid].userB = c)
        THEN /\ o.err = "none"
             /\ o.db =
                    [db EXCEPT !.messages =
                        Append(messages, [sessionId |-> sid, content |-> content, authorId |-> c])]
        ELSE /\ o.err # "none"
             /\ o.db = db

\* an active session that holds a message, an ended session, and a user who is
\* in neither
C9_Witness ==
    \E u \in Users, i, j \in DOMAIN chatSessions :
        /\ chatSessions[i].active /\ MessagesBySession(messages, i) # <<>>
        /\ ~chatSessions[j].active
        /\ ~IsParticipant(chatSessions[i], u) /\ ~IsParticipant(chatSessions[j], u)

\* the calls of sendMessage naming session s that the step is: a successful
\* call is identified by the document it inserts
SentTo(s) ==
    {x \in Users \X Contents : messages' # messages /\ SendMessage(x[1], s, x[2])}

\* C10: for a participant of an active session, getMessages returns exactly
\* the messages successfully sent to that session by sendMessage, each with
\* its sender as authorId, in the order in which they were sent, and no
\* message of another session: the result is empty for a new session, every
\* successful sendMessage naming the session appends its message to the end of
\* the result, and no other step changes the result (a step that changes
\* neither table getMessages reads cannot change it).
C10_MessagesInSendOrder ==
    [][ (messages' # messages \/ chatSessions' # chatSessions) =>
          \A s \in DOMAIN chatSessions' :
              LET sent == SentTo(s) IN
              \A p \in Users :
                  GetMessagesAllowed(chatSessions', p, s) =>
                      IF sent = {}
                      THEN GetMessages(p, s)' = GetMessages(p, s)
                      ELSE \E x \in sent :
                              GetMessages(p, s)' =
                                  Append(GetMessages(p, s),
                                         [sessionId |-> s, content |-> x[2], authorId |-> x[1]])
      ]_vars

\* a participant of the second session reads two messages of different
\* authors and contents, sent after the first session ended
C10_Witness ==
    /\ Len(chatSessions) = 2
    /\ \E p \in Users :
          /\ Len(GetMessages(p, 2)) = 2
          /\ GetMessages(p, 2)[1].authorId # GetMessages(p, 2)[2].authorId
          /\ GetMessages(p, 2)[1].content # GetMessages(p, 2)[2].content

\* C11: once a session has been ended (by leaveChat or joinQueue of either
\* participant), getMessages for it returns the empty sequence to every
\* caller, both recorded participants included, in every later state: a
\* session that is ended before or after a step is ended after it and
\* getMessages returns <<>> for it then; and getMessages returns <<>> to a
\* caller who is not a participant of the session.  (The query has no throw.)
C11_EndedSessionReadsEmpty ==
    [][ (messages' # messages \/ chatSessions' # chatSessions) =>
          /\ \A sid \in DOMAIN chatSessions : \A c \in Callers :
                (~chatSessions[sid].active \/ ~chatSessions'[sid].active) =>
                    /\ ~chatSessions'[sid].active
                    /\ GetMessages(c, sid)' = <<>>
          /\ \A sid \in 1..(Len(chatSessions') + 1) : \A c \in Callers :
                (~SessionExists(chatSessions', sid) \/ ~IsParticipant(chatSessions'[sid], c)) =>
                    GetMessages(c, sid)' = <<>>
      ]_vars

\* the first session holds two messages and has been ended; a second session
\* is active
C11_Witness ==
    /\ Len(chatSessions) = 2
    /\ ~chatSessions[1].active
    /\ chatSessions[2].active
    /\ Len(MessagesBySession(messages, 1)) = 2

\* the calls of sendSignal naming session s and recipient p that the step is
SignalledTo(s, p) ==
    {x \in Users \X SignalTypes \X Payloads :
        rtcSignaling' # rtcSignaling /\ SendSignal(x[1], s, p, x[2], x[3])}

\* C12: for a participant of an active session with hasVideo = true,
\* getSignals returns exactly the signaling messages of that session addressed
\* to the caller, and it returns empty otherwise; polling consumes nothing and
\* the result only grows while the session stays active: a successful
\* sendSignal naming the session and the caller as toUserId appends its
\* message to the end of the caller's result, and no other step (in
\* particular no signal addressed to the peer or sent in another session)
\* changes it.
C12_SignalsAddressedToCaller ==
    [][ (rtcSignaling' # rtcSignaling \/ chatSessions' # chatSessions) =>
          /\ \A s \in DOMAIN chatSessions' : \A p \in Users :
                GetSignalsAllowed(chatSessions', p, s) =>
                    LET sent == SignalledTo(s, p) IN
                    IF sent = {}
                    THEN GetSignals(p, s)' = GetSignals(p, s)
                    ELSE \E x \in sent :
                            GetSignals(p, s)' =
                                Append(GetSignals(p, s),
                                       [sessionId |-> s, fromUserId |-> x[1], toUserId |-> p,
                                        type |-> x[2], payload |-> x[3]])
          /\ \A s \in 1..(Len(chatSessions') + 1) : \A c \in Callers :
                ~( /\ c # NoUser
                   /\ SessionExists(chatSessions', s)
                   /\ chatSessions'[s].active
                   /\ chatSessions'[s].hasVideo
                   /\ IsParticipant(chatSessions'[s], c) ) =>
                    GetSignals(c, s)' = <<>>
      ]_vars

\* in the second, active video session each participant has been sent one
\* signaling message by the other
C12_Witness ==
    /\ Len(chatSessions) = 2
    /\ chatSessions[2].active
    /\ Len(GetSignals(chatSessions[2].userA, 2)) = 1
    /\ Len(GetSignals(chatSessions[2].userB, 2)) = 1
    /\ GetSignals(chatSessions[2].userA, 2)[1].fromUserId = chatSessions[2].userB
    /\ GetSignals(chatSessions[2].userB, 2)[1].fromUserId = chatSessions[2].userA

\* C13: a session's active flag only ever changes from true to false, and its
\* userA, userB and hasVideo never change after creation: every step keeps
\* every session document in the table, with the same userA, userB and
\* hasVideo, and active after the step only if active before it.
C13_ActiveOneWay ==
    [][ \A i \in DOMAIN chatSessions :
            /\ i \in DOMAIN chatSessions'
            /\ chatSessions'[i].userA = chatSessions[i].userA
            /\ chatSessions'[i].userB = chatSessions[i].userB
            /\ chatSessions'[i].hasVideo = chatSessions[i].hasVideo
            /\ chatSessions'[i].active => chatSessions[i].active
      ]_vars

\* the two participants of an ended session have been matched again, in a
\* second session that is active
C13_Witness ==
    /\ Len(chatSessions) = 2
    /\ ~chatSessions[1].active
    /\ chatSessions[2].active
    /\ {chatSessions[1].userA, chatSessions[1].userB} =
           {chatSessions[2].userA, chatSessions[2].userB}

\* the waiting entries of U, and of the users other than U, in table order
EntriesOf(waiting, U) == SelectSeq(waiting, LAMBDA w : w.userId = U)
EntriesNotOf(waiting, U) == SelectSeq(waiting, LAMBDA w : w.userId # U)

\* C14 (as stated): a single joinQueue call creates at most one session and
\* inserts or removes at most one waiting entry in total, the caller's own
\* stale entry and the matched entry counted.  (Entries are compared as
\* documents here, so the count is a lower bound: the removal of an entry and
\* the insertion of an equal one are not counted.)
C14_Original ==
    \A J \in Users, wv \in BOOLEAN :
        LET o == JoinOf(J, wv)
            before == RangeOf(waitingUsers)
            after == RangeOf(o.db.waitingUsers)
        IN /\ Len(o.db.chatSessions) - Len(chatSessions) \in {0, 1}
           /\ Cardinality(before \ after) + Cardinality(after \ before) <= 1

\* C14 (amended): a single joinQueue call creates at most one session; it
\* removes the caller's own stale waiting entry (there is at most one), and
\* besides that it either removes one entry of another user, when it creates a
\* session, or inserts one entry of the caller, when it does not: at most two
\* entries are inserted or removed in total, and the entries of the other
\* users are otherwise unchanged.
C14_OneSessionTwoEntries ==
    \A J \in Users, wv \in BOOLEAN :
        LET o == JoinOf(J, wv)
            created == Len(o.db.chatSessions) - Len(chatSessions)
            others == EntriesNotOf(waitingUsers, J)
            othersAfter == EntriesNotOf(o.db.waitingUsers, J)
        IN /\ created \in {0, 1}
           /\ Len(EntriesOf(waitingUsers, J)) <= 1
           /\ Len(EntriesOf(o.db.waitingUsers, J)) = 1 - created
           /\ Len(othersAfter) = Len(others) - created
           /\ \E i \in 1..(Len(others) + 1) :
                 othersAfter = IF created = 1 THEN RemoveAt(others, i) ELSE others
           /\ created = 0 =>
                 o.db.waitingUsers = Append(others, o.db.waitingUsers[Len(o.db.waitingUsers)])

\* two users wait, the first without video and the second with video, so a
\* new join by the first both removes its stale entry and the second's entry
C14_Witness ==
    /\ Len(waitingUsers) = 2
    /\ ~waitingUsers[1].wantsVideo
    /\ waitingUsers[2].wantsVideo
    /\ Matched(JoinOf(waitingUsers[1].userId, FALSE))
    /\ JoinOf(waitingUsers[1].userId, FALSE).db.waitingUsers = <<>>

\* C15: after a joinQueue call by user U completes, every session that was
\* active for U before the call has active = false, and U's only active
\* session, if any, is the one created by that call.
C15_JoinEndsPriorSession ==
    \A U \in Users, wv \in BOOLEAN :
        LET o == JoinOf(U, wv) IN
        /\ o.err = "none"
        /\ \A i \in DOMAIN chatSessions :
              (chatSessions[i].active /\ IsParticipant(chatSessions[i], U)) =>
                  ~o.db.chatSessions[i].active
        /\ \A i \in DOMAIN o.db.chatSessions :
              (o.db.chatSessions[i].active /\ IsParticipant(o.db.chatSessions[i], U)) =>
                  (Matched(o) /\ i = Len(chatSessions) + 1)

\* a user in an active session whose next join is matched with the entry of
\* the third user
C15_Witness ==
    \E U \in Users :
        /\ ActiveSessionsOf(chatSessions, U) # {}
        /\ Matched(JoinOf(U, FALSE))

\* C16: a joinQueue call by user U with flag wantsVideo has exactly one of two
\* outcomes.  If, U's own entries set aside, some waiting entry of another
\* user qualifies (any entry when wantsVideo is false, an entry with
\* wantsVideo = true when it is true), a session pairing U with the owner of a
\* qualifying entry is created, that entry is deleted and U is not enqueued;
\* otherwise no session is created and exactly one waiting entry
\* {U, wantsVideo} is inserted.
C16_MatchOrEnqueue ==
    \A U \in Users, wv \in BOOLEAN :
        LET o == JoinOf(U, wv)
            others == EntriesNotOf(waitingUsers, U)
            qualifying == {i \in DOMAIN others : wv => others[i].wantsVideo}
        IN IF qualifying # {}
           THEN /\ Matched(o)
                /\ \E i \in qualifying :
                      /\ {Created(o).userA, Created(o).userB} = {U, others[i].userId}
                      /\ o.db.waitingUsers = RemoveAt(others, i)
                /\ EntriesOf(o.db.waitingUsers, U) = <<>>
           ELSE /\ Len(o.db.chatSessions) = Len(chatSessions)
                /\ o.db.waitingUsers = Append(others, [userId |-> U, wantsVideo |-> wv])

\* after a session has ended two users wait, the first without video and the
\* second with video: a video request of the third user skips the first entry
C16_Witness ==
    /\ Len(chatSessions) = 1
    /\ Len(waitingUsers) = 2
    /\ ~waitingUsers[1].wantsVideo
    /\ waitingUsers[2].wantsVideo

\* C18: in every reachable state no user both owns a waiting entry and is a
\* participant of a session with active = true.
C18_WaitingOrInSession ==
    \A u \in Users :
        ~( /\ \E i \in DOMAIN waitingUsers : waitingUsers[i].userId = u
           /\ \E i \in DOMAIN chatSessions :
                 chatSessions[i].active /\ IsParticipant(chatSessions[i], u) )

\* a participant of an ended session waits while its former partner is in an
\* active session with the third user
C18_Witness ==
    /\ Len(chatSessions) = 2
    /\ ~chatSessions[1].active
    /\ chatSessions[2].active
    /\ \E i \in DOMAIN waitingUsers :
          /\ IsParticipant(chatSessions[1], waitingUsers[i].userId)
          /\ ~IsParticipant(chatSessions[2], waitingUsers[i].userId)

\* C19: every session ever created has userA different from userB: a user is
\* never matched with their own waiting entry, including when they re-join
\* while already waiting.
C19_NoSelfMatch ==
    /\ \A i \in DOMAIN chatSessions : chatSessions[i].userA # chatSessions[i].userB
    /\ \A U \in Users, wv \in BOOLEAN :
          LET o == JoinOf(U, wv) IN
          /\ Matched(o) => Created(o).userA # Created(o).userB
          /\ (EntriesNotOf(waitingUsers, U) = <<>>) => ~Matched(o)

\* after a session was created, a user waits alone with a video entry and
\* would re-join
C19_Witness ==
    /\ chatSessions # <<>>
    /\ Len(waitingUsers) = 1
    /\ waitingUsers[1].wantsVideo
    /\ ~Matched(JoinOf(waitingUsers[1].userId, TRUE))

\* what ending session s by the call with outcome o does to its other
\* participant P
EndsOnlySession(o, s, P) ==
    /\ ~o.db.chatSessions[s].active
    /\ \A i \in DOMAIN chatSessions \ {s} : o.db.chatSessions[i] = chatSessions[i]
    /\ \A i \in DOMAIN o.db.chatSessions \ DOMAIN chatSessions :
          ~IsParticipant(o.db.chatSessions[i], P)
    /\ EntriesOf(o.db.waitingUsers, P) = EntriesOf(waitingUsers, P)
    /\ o.db.messages = messages
    /\ o.db.rtcSignaling = rtcSignaling

\* C20: when user U ends a session by leaveChat or by joinQueue, the only
\* effect on the other participant P is that their shared session becomes
\* inactive: P's waiting entries are unchanged (P is not re-queued), no
\* session is created for P, and the messages and signaling messages of the
\* ended session are neither deleted nor modified.
C20_PeerOnlyLosesSession ==
    \A U \in Users, s \in DOMAIN chatSessions :
        (chatSessions[s].active /\ IsParticipant(chatSessions[s], U)) =>
            LET P == IF chatSessions[s].userA = U
                     THEN chatSessions[s].userB ELSE chatSessions[s].userA
            IN /\ EndsOnlySession(LeaveOf(U, s), s, P)
               /\ \A wv \in BOOLEAN : EndsOnlySession(JoinOf(U, wv), s, P)

\* an active session holds a message (or a signaling message) while the third
\* user waits, so a join by a participant ends it and creates a new session
C20_Witness ==
    \E s \in DOMAIN chatSessions :
        /\ chatSessions[s].active
        /\ waitingUsers # <<>>
        /\ \/ MessagesBySession(messages, s) # <<>>
           \/ SelectSeq(rtcSignaling, LAMBDA g : g.sessionId = s) # <<>>

\* signaling messages of a type
SignalsOfType(type) == {i \in DOMAIN rtcSignaling : rtcSignaling[i].type = type}

\* getSignals returns to the initiator an answer for every offer sent so far
OffersAnswered ==
    \A i \in SignalsOfType("offer") :
        LET s == rtcSignaling[i].sessionId
            polled == GetSignals(rtcSignaling[i].fromUserId, s)
        IN \E j \in DOMAIN polled : polled[j].type = "answer"

\* C17: in a video session that stays active and whose two clients run the
\* negotiation logic, exactly the session's userA sends an offer, the other
\* participant sends an answer only after observing an offer addressed to it,
\* and every offer sent by the initiator is eventually followed by an answer
\* that the initiator's getSignals returns, whatever the interleaving of the
\* clients' media setup and signal polling.
C17_Original ==
    /\ [](\A i \in SignalsOfType("offer") :
             rtcSignaling[i].fromUserId = chatSessions[rtcSignaling[i].sessionId].userA)
    /\ [](\A i \in SignalsOfType("answer") :
             /\ rtcSignaling[i].fromUserId = chatSessions[rtcSignaling[i].sessionId].userB
             /\ \E j \in SignalsOfType("offer") :
                   /\ j < i
                   /\ rtcSignaling[j].sessionId = rtcSignaling[i].sessionId
                   /\ rtcSignaling[j].toUserId = rtcSignaling[i].fromUserId)
    /\ (SignalsOfType("offer") # {}) ~> OffersAnswered

====
